---- MODULE Spec2Model ----
(***************************************************************************)
(* A model of aqi_scraper.py: one HTTP GET, one extraction pass over the   *)
(* station items of the page, then a JSON snapshot (overwritten) and a CSV *)
(* log (appended).  Strings are sequences of one-character strings, so     *)
(* that slicing, searching and case conversion are computed, not assumed.  *)
(***************************************************************************)
EXTENDS Naturals, Sequences, FiniteSets

\* ------------------------------------------------------------------ bounds

\* Most station items in one page.
MaxItems == 2
\* Most runs of the script in one behaviour.
MaxRuns == 2
\* Last second the wall clock reaches.
MaxClock == 1

\* ----------------------------------------------------------------- strings

LowerCase == << "a","b","c","d","e","f","g","h","i","j","k","l","m",
                "n","o","p","q","r","s","t","u","v","w","x","y","z" >>
UpperCase == << "A","B","C","D","E","F","G","H","I","J","K","L","M",
                "N","O","P","Q","R","S","T","U","V","W","X","Y","Z" >>
Digits == << "0","1","2","3","4","5","6","7","8","9" >>
Whitespace == { " ", "\n", "\t" }

IsLower(c) == \E i \in 1..Len(LowerCase) : LowerCase[i] = c
IsUpper(c) == \E i \in 1..Len(UpperCase) : UpperCase[i] = c
IsCased(c) == IsLower(c) \/ IsUpper(c)

ToUpper(c) ==
  IF IsLower(c)
    THEN UpperCase[CHOOSE i \in 1..Len(LowerCase) : LowerCase[i] = c]
    ELSE c

ToLower(c) ==
  IF IsUpper(c)
    THEN LowerCase[CHOOSE i \in 1..Len(UpperCase) : UpperCase[i] = c]
    ELSE c

\* str.replace(old, new) for one-character old and new.
Replace(s, old, new) ==
  [i \in 1..Len(s) |-> IF s[i] = old THEN new ELSE s[i]]

\* str.title(): a letter that follows a cased letter is lowered, any other
\* letter is raised.
Title(s) ==
  [i \in 1..Len(s) |->
     IF i > 1 /\ IsCased(s[i-1]) THEN ToLower(s[i]) ELSE ToUpper(s[i])]

\* str.rstrip(c): drop every trailing c.
RStrip(s, c) ==
  LET keep == {i \in 1..Len(s) : s[i] # c}
      last == IF keep = {} THEN 0
              ELSE CHOOSE i \in keep : \A j \in keep : j <= i
  IN  SubSeq(s, 1, last)

\* str.split(c)[-1]: what follows the last c.
LastSegment(s, c) ==
  LET seps == {i \in 1..Len(s) : s[i] = c}
      last == IF seps = {} THEN 0
              ELSE CHOOSE i \in seps : \A j \in seps : j <= i
  IN  SubSeq(s, last + 1, Len(s))

\* str.strip(): drop leading and trailing whitespace.
Strip(s) ==
  LET keep  == {i \in 1..Len(s) : s[i] \notin Whitespace}
      first == CHOOSE i \in keep : \A j \in keep : i <= j
      last  == CHOOSE i \in keep : \A j \in keep : j <= i
  IN  IF keep = {} THEN << >> ELSE SubSeq(s, first, last)

\* The substring test of the attribute selector [href*='...'].
Contains(s, sub) ==
  \E i \in 1..(Len(s) + 1) :
     /\ i + Len(sub) - 1 <= Len(s)
     /\ SubSeq(s, i, i + Len(sub) - 1) = sub

\* ------------------------------------------------------------- optionals

None == [some |-> FALSE]
Some(v) == [some |-> TRUE, val |-> v]

\* Python truthiness of an optional string: None and "" are falsy.
Truthy(x) == x.some /\ x.val # << >>

\* ------------------------------------------------------------ extraction

\* The marker of the selector a[href*='ispu-detail'].
Marker == << "i","s","p","u","-","d","e","t","a","i","l" >>

slug_to_name(slug) == Title(Replace(slug, "-", " "))

\* A station item (one li.grid-item) as the selectors see it: the hrefs of
\* its descendant anchors and, in document order, the text nodes of each
\* h5 and p of the value box and of each span.text-uppercase.
\* select_one: the first match in document order, or None.
SelectOne(tags) == IF tags = << >> THEN None ELSE Some(tags[1])

SelectLink(li) ==
  LET hits == {i \in 1..Len(li.anchors) : Contains(li.anchors[i], Marker)}
  IN  IF hits = {} THEN None
      ELSE Some(li.anchors[CHOOSE i \in hits : \A j \in hits : i <= j])

\* get_text(strip=True): every text node stripped, the empty ones dropped,
\* the rest joined.
RECURSIVE GetText(_)
GetText(nodes) ==
  IF nodes = << >> THEN << >>
  ELSE Strip(Head(nodes)) \o GetText(Tail(nodes))

TextOf(tag) == IF tag.some THEN Some(GetText(tag.val)) ELSE None

StationOf(link_tag) ==
  IF link_tag.some
    THEN Some(slug_to_name(LastSegment(RStrip(link_tag.val, "/"), "/")))
    ELSE None

\* datetime.now(timezone.utc).strftime("%Y-%m-%dT%H:%M:%SZ") of a clock that
\* counts the seconds of one minute.
Strftime(t) ==
  << "2","0","2","6","-","0","1","-","0","1","T","0","0",":","0","0",":" >>
    \o << Digits[(t \div 10) + 1], Digits[(t % 10) + 1], "Z" >>

\* A slip: the fields read by position among the tags that are present, so
\* that a missing tag shifts the texts that follow it.
ExtractRecordPositional(li, timestamp) ==
  LET link_tag == SelectLink(li)
      present  == (IF li.h5s = << >> THEN << >> ELSE << li.h5s[1] >>)
                  \o (IF li.ps = << >> THEN << >> ELSE << li.ps[1] >>)
                  \o (IF li.spans = << >> THEN << >> ELSE << li.spans[1] >>)
      at(n)    == IF n <= Len(present) THEN Some(GetText(present[n])) ELSE None
  IN  [ timestamp  |-> timestamp,
        station    |-> StationOf(link_tag),
        aqi        |-> at(1),
        pollutant  |-> at(2),
        status     |-> at(3),
        detail_url |-> link_tag ]

\* One record of scrape(): all six keys, an absent field held as None.
ExtractRecord(li, timestamp) ==
  LET link_tag   == SelectLink(li)
      detail_url == link_tag
      value_tag     == SelectOne(li.h5s)
      pollutant_tag == SelectOne(li.ps)
      status_tag    == SelectOne(li.spans)
  IN  [ timestamp  |-> timestamp,
        station    |-> StationOf(link_tag),
        aqi        |-> TextOf(value_tag),
        pollutant  |-> TextOf(pollutant_tag),
        status     |-> TextOf(status_tag),
        detail_url |-> detail_url ]

\* A slip: the filter on the station left out.
AppendAlways(records, record) == Append(records, record)

\* A slip: the record put in front of the list.
AppendIfStationFront(records, record) ==
  IF Truthy(record.station) THEN << record >> \o records ELSE records

\* records.append(record) under "if record['station']".
AppendIfStation(records, record) ==
  IF Truthy(record.station) THEN Append(records, record) ELSE records

\* --------------------------------------------------------------- the sinks

\* The column names of append_csv, in order.
fieldnames ==
  << << "t","i","m","e","s","t","a","m","p" >>,
     << "s","t","a","t","i","o","n" >>,
     << "a","q","i" >>,
     << "p","o","l","l","u","t","a","n","t" >>,
     << "s","t","a","t","u","s" >>,
     << "d","e","t","a","i","l","_","u","r","l" >> >>

\* csv.DictWriter writes None as the empty string.
CsvField(x) == IF x.some THEN x.val ELSE << >>

CsvRow(r) ==
  << r.timestamp, CsvField(r.station), CsvField(r.aqi),
     CsvField(r.pollutant), CsvField(r.status), CsvField(r.detail_url) >>

CsvRows(records) == [i \in 1..Len(records) |-> CsvRow(records[i])]

\* A file: absent, or present with its content.  The JSON file holds the
\* dumped list once the dump has completed (valid); the CSV file holds lines.
NoFile == [exists |-> FALSE, valid |-> FALSE, content |-> << >>]
EmptyFile == [exists |-> TRUE, valid |-> FALSE, content |-> << >>]
JsonFile(records) == [exists |-> TRUE, valid |-> TRUE, content |-> records]
CsvFile(lines) == [exists |-> TRUE, valid |-> TRUE, content |-> lines]

\* A slip: the status of the response never looked at.
RaisesNever(status) == FALSE

\* raise_for_status(): raises for 4xx and 5xx.
RaisesForStatus(status) == status >= 400 /\ status < 600

\* A slip: the sinks written whatever scrape returned.
HasDataAlways(data) == TRUE

\* "if data:" of the main block.
HasData(data) == data # << >>

\* ------------------------------------------------------------------ inputs

HrefA == << "/","i","s","p","u","-","d","e","t","a","i","l","/","u","s","-","e","m","b","a","s","s","y","-","1","/" >>
HrefB == << "/","i","s","p","u","-","d","e","t","a","i","l","/","d","k","i","1","-","b" >>
HrefOther == << "/","a","b","o","u","t" >>

AqiTag == << << " ","4","2","\n" >> >>
PollutantTag == << << "P","M" >>, << " ","2",".","5"," " >> >>
StatusTag == << << "S","e","d","a","n","g" >> >>

Item(anchors, h5s, ps, spans) ==
  [anchors |-> anchors, h5s |-> h5s, ps |-> ps, spans |-> spans]

ItemFull == Item(<< HrefA >>, << AqiTag >>, << PollutantTag >>, << StatusTag >>)
ItemNoAqi == Item(<< HrefOther, HrefB >>, << >>, << PollutantTag >>, << StatusTag >>)
ItemGhost == Item(<< HrefOther >>, << AqiTag >>, << PollutantTag >>, << StatusTag >>)

\* The items of the pages the runs fetch.
PoolSmall == { ItemFull, ItemNoAqi, ItemGhost }

\* The items of the pages the extraction alone is run on: every combination
\* of links and of present and missing fields.
PoolAll ==
  { Item(a, h, pp, s) :
      a \in { << HrefOther >>, << HrefA >>, << HrefOther, HrefB >> },
      h \in { << >>, << AqiTag >> },
      pp \in { << >>, << PollutantTag >> },
      s \in { << >>, << StatusTag >> } }

Docs(pool) == UNION { [1..n -> pool] : n \in 0..MaxItems }

Page(status, body) == [up |-> TRUE, status |-> status, body |-> body]
Unreachable == [up |-> FALSE, status |-> 0, body |-> << >>]

OkPages(pool) == { Page(200, d) : d \in Docs(pool) }
ErrorPages == { Page(s, b) : s \in {404, 500}, b \in { << >>, << ItemFull >> } }

\* What one GET of the URL can bring: the page, an error status, or no
\* response at all (a timeout, a refused connection).
Responses(page) == { page } \cup ErrorPages \cup { Unreachable }

\* What an earlier run left behind.
PriorRecord ==
  [ timestamp  |-> << "2","0","2","5","-","1","2","-","3","1","T","2","3",":","5","9",":","5","9","Z" >>,
    station    |-> Some(<< "U","s"," ","E","m","b","a","s","s","y"," ","1" >>),
    aqi        |-> Some(<< "4","0" >>),
    pollutant  |-> None,
    status     |-> Some(<< "B","a","i","k" >>),
    detail_url |-> Some(HrefA) ]

InitialFiles ==
  { [json |-> NoFile, csv |-> NoFile],
    [json |-> JsonFile(<< PriorRecord >>),
     csv  |-> CsvFile(<< fieldnames, CsvRow(PriorRecord) >>)] }

\* ------------------------------------------------------------------- state

Procs == {1, 2}

VARIABLES
  site,         \* the page the URL serves now
  clock,        \* wall clock, in seconds
  json,         \* aqi_latest.json
  csv,          \* aqi_log.csv
  runs,         \* runs started so far
  pc,           \* where each invocation of the script stands
  resp,         \* scrape: the response of requests.get
  timestamp,    \* scrape: the capture time, formatted
  idx,          \* scrape: the li the loop is at
  records,      \* scrape: the list being built
  data,         \* main: what scrape returned
  file_exists,  \* append_csv: the result of os.path.isfile
  buf,          \* append_csv: lines written to f and not yet flushed
  pre,          \* the files as each invocation found them when it started
  log           \* how each finished run ended: its outcome, data and pre

vars == << site, clock, json, csv, runs, pc, resp, timestamp, idx, records,
           data, file_exists, buf, pre, log >>

files == << json, csv >>
scrape_locals == << resp, timestamp, idx, records >>
csv_locals == << file_exists, buf >>

\* Time that passes during a step: none, or one second.
Elapse == \E d \in {0, 1} : clock + d <= MaxClock /\ clock' = clock + d

\* The run of p ends: "done" when the main block ran to its end, "failed"
\* when an exception left it.
Finish(p, outcome, returned) ==
  /\ pc' = [pc EXCEPT ![p] = outcome]
  /\ log' = Append(log, [outcome |-> outcome, data |-> returned, pre |-> pre[p]])

\* A slip: the clock read again for each record.
RecordTimestampNow(p) == Strftime(clock)

\* The capture time each record of p is stamped with.
RecordTimestamp(p) == timestamp[p]

\* Lines 31-36: the GET, raise_for_status, the parse, the capture time.
ScrapeFetch(p) ==
  /\ pc[p] = "start"
  /\ \E r \in Responses(site) :
       /\ resp' = [resp EXCEPT ![p] = r]
       /\ IF ~r.up \/ RaisesForStatus(r.status)
            THEN /\ Finish(p, "failed", << >>)
                 /\ UNCHANGED << timestamp, idx, records >>
            ELSE /\ pc' = [pc EXCEPT ![p] = "loop"]
                 /\ timestamp' = [timestamp EXCEPT ![p] = Strftime(clock)]
                 /\ idx' = [idx EXCEPT ![p] = 1]
                 /\ records' = [records EXCEPT ![p] = << >>]
                 /\ UNCHANGED log
  /\ UNCHANGED << site, clock, files, runs, data, csv_locals, pre >>

\* Lines 39-74: one turn of the loop over the station items.
ScrapeItem(p) ==
  /\ pc[p] = "loop"
  /\ idx[p] <= Len(resp[p].body)
  /\ records' = [records EXCEPT ![p] =
       AppendIfStation(@, ExtractRecord(resp[p].body[idx[p]], RecordTimestamp(p)))]
  /\ idx' = [idx EXCEPT ![p] = @ + 1]
  /\ Elapse
  /\ UNCHANGED << site, files, runs, pc, resp, timestamp, data, csv_locals,
                  pre, log >>

\* Lines 76 and 98-104: scrape returns, and the main block writes the sinks
\* or reports that there is no data.
ScrapeReturn(p) ==
  /\ pc[p] = "loop"
  /\ idx[p] > Len(resp[p].body)
  /\ data' = [data EXCEPT ![p] = records[p]]
  /\ IF HasData(records[p])
       THEN pc' = [pc EXCEPT ![p] = "save_json"] /\ UNCHANGED log
       ELSE Finish(p, "done", records[p])
  /\ UNCHANGED << site, clock, files, runs, scrape_locals, csv_locals, pre >>

\* Line 80: open(OUTPUT_JSON, "w") creates or truncates the file, or raises.
SaveJsonOpen(p) ==
  /\ pc[p] = "save_json"
  /\ \/ /\ json' = EmptyFile
        /\ pc' = [pc EXCEPT ![p] = "json_dump"]
        /\ UNCHANGED log
     \/ /\ Finish(p, "failed", data[p])
        /\ UNCHANGED json
  /\ UNCHANGED << site, clock, csv, runs, scrape_locals, data, csv_locals, pre >>

\* Lines 81-82: json.dump and the close of the file; a failed write leaves
\* the file cut short.
SaveJsonDump(p) ==
  /\ pc[p] = "json_dump"
  /\ \/ /\ json' = JsonFile(data[p])
        /\ pc' = [pc EXCEPT ![p] = "append_csv"]
        /\ UNCHANGED log
     \/ /\ Finish(p, "failed", data[p])
        /\ json' = EmptyFile
  /\ UNCHANGED << site, clock, csv, runs, scrape_locals, data, csv_locals, pre >>

\* Line 87: file_exists = os.path.isfile(OUTPUT_CSV).
AppendCsvIsFile(p) ==
  /\ pc[p] = "append_csv"
  /\ file_exists' = [file_exists EXCEPT ![p] = csv.exists]
  /\ pc' = [pc EXCEPT ![p] = "csv_open"]
  /\ UNCHANGED << site, clock, files, runs, scrape_locals, data, buf, pre, log >>

\* Line 88: open(OUTPUT_CSV, "a") creates the file when it is absent and
\* keeps what it holds, or raises.
AppendCsvOpen(p) ==
  /\ pc[p] = "csv_open"
  /\ \/ /\ csv' = IF csv.exists THEN csv ELSE CsvFile(<< >>)
        /\ pc' = [pc EXCEPT ![p] = "csv_write"]
        /\ UNCHANGED log
     \/ /\ Finish(p, "failed", data[p])
        /\ UNCHANGED csv
  /\ UNCHANGED << site, clock, json, runs, scrape_locals, data, csv_locals, pre >>

\* A slip: the header written on every run.
CsvOutputAlwaysHeader(exists, rows) == << fieldnames >> \o CsvRows(rows)

\* A slip: the header never written.
CsvOutputNeverHeader(exists, rows) == CsvRows(rows)

\* A slip: nothing appended to a log that is already there.
CsvOutputOnce(exists, rows) ==
  IF exists THEN << >> ELSE << fieldnames >> \o CsvRows(rows)

\* The lines append_csv hands to the writer: the header when the file was
\* not there, then one row per record.
CsvOutput(exists, rows) ==
  (IF ~exists THEN << fieldnames >> ELSE << >>) \o CsvRows(rows)

\* Lines 89-92: writeheader and writerows fill the buffer of f.
AppendCsvWrite(p) ==
  /\ pc[p] = "csv_write"
  /\ buf' = [buf EXCEPT ![p] = CsvOutput(file_exists[p], data[p])]
  /\ pc' = [pc EXCEPT ![p] = "csv_flush"]
  /\ UNCHANGED << site, clock, files, runs, scrape_locals, data, file_exists,
                  pre, log >>

\* The buffer of f reaches the file in one write or in several, each
\* appended at the end of the file as it is then; a write may fail.
AppendCsvFlush(p) ==
  /\ pc[p] = "csv_flush"
  /\ buf[p] # << >>
  /\ \/ /\ \E k \in 1..Len(buf[p]) :
             /\ csv' = CsvFile(csv.content \o SubSeq(buf[p], 1, k))
             /\ buf' = [buf EXCEPT ![p] = SubSeq(@, k + 1, Len(@))]
        /\ UNCHANGED << pc, log >>
     \/ /\ Finish(p, "failed", data[p])
        /\ buf' = [buf EXCEPT ![p] = << >>]
        /\ UNCHANGED csv
  /\ UNCHANGED << site, clock, json, runs, scrape_locals, data, file_exists, pre >>

\* Lines 88 and 93, 102: the with block closes f and the run is done.
AppendCsvClose(p) ==
  /\ pc[p] = "csv_flush"
  /\ buf[p] = << >>
  /\ Finish(p, "done", data[p])
  /\ UNCHANGED << site, clock, files, runs, scrape_locals, data, csv_locals, pre >>

\* The script is started again (one run at a time) against the page as it
\* was; time may have passed.
Restart(p) ==
  /\ pc[p] \in {"done", "failed"}
  /\ runs < MaxRuns
  /\ runs' = runs + 1
  /\ site' = site
  /\ Elapse
  /\ pc' = [pc EXCEPT ![p] = "start"]
  /\ resp' = [resp EXCEPT ![p] = Unreachable]
  /\ timestamp' = [timestamp EXCEPT ![p] = << >>]
  /\ idx' = [idx EXCEPT ![p] = 1]
  /\ records' = [records EXCEPT ![p] = << >>]
  /\ data' = [data EXCEPT ![p] = << >>]
  /\ file_exists' = [file_exists EXCEPT ![p] = FALSE]
  /\ buf' = [buf EXCEPT ![p] = << >>]
  /\ pre' = [pre EXCEPT ![p] = [json |-> json, csv |-> csv]]
  /\ UNCHANGED << files, log >>

Scrape(p) == ScrapeFetch(p) \/ ScrapeItem(p) \/ ScrapeReturn(p)

Sinks(p) ==
  \/ SaveJsonOpen(p) \/ SaveJsonDump(p)
  \/ AppendCsvIsFile(p) \/ AppendCsvOpen(p) \/ AppendCsvWrite(p)
  \/ AppendCsvFlush(p) \/ AppendCsvClose(p)

InitWith(pages, started) ==
  /\ site \in pages
  /\ clock = 0
  /\ \E f \in InitialFiles :
       /\ json = f.json
       /\ csv = f.csv
       /\ pre = [p \in Procs |-> f]
  /\ runs = 1
  /\ pc = [p \in Procs |-> IF p \in started THEN "start" ELSE "off"]
  /\ resp = [p \in Procs |-> Unreachable]
  /\ timestamp = [p \in Procs |-> << >>]
  /\ idx = [p \in Procs |-> 1]
  /\ records = [p \in Procs |-> << >>]
  /\ data = [p \in Procs |-> << >>]
  /\ file_exists = [p \in Procs |-> FALSE]
  /\ buf = [p \in Procs |-> << >>]
  /\ log = << >>

\* The script run by a scheduler, one run after the other.
Init == InitWith(OkPages(PoolSmall), {1})
Next == \E p \in Procs : Scrape(p) \/ Sinks(p) \/ Restart(p)
Spec == Init /\ [][Next]_vars

\* scrape() alone, on pages of every kind of item.
InitScrape == InitWith(OkPages(PoolAll), {1})
NextScrape == \E p \in Procs : Scrape(p)
SpecScrape == InitScrape /\ [][NextScrape]_vars

\* Two invocations of the script at the same time, on the same page.
InitConc == InitWith(OkPages({ItemFull, ItemGhost}), Procs)
NextConc == \E p \in Procs : Scrape(p) \/ Sinks(p)
SpecConc == InitConc /\ [][NextConc]_vars

\* ------------------------------------------------------ what the claims use

IsPrefix(a, b) == Len(a) <= Len(b) /\ SubSeq(b, 1, Len(a)) = a

Suffix(a, n) == SubSeq(a, n + 1, Len(a))

NotHeader(line) == line # fieldnames

IsHeader(line) == line = fieldnames

\* The fetch of a run failed: no response, or a status that is no success.
FetchFailed(r) == ~r.up \/ r.status >= 400

HasDetailLink(li) ==
  \E j \in 1..Len(li.anchors) : Contains(li.anchors[j], Marker)

FirstDetailLink(li) ==
  li.anchors[CHOOSE j \in 1..Len(li.anchors) :
               /\ Contains(li.anchors[j], Marker)
               /\ \A k \in 1..(j - 1) : ~Contains(li.anchors[k], Marker)]

\* The items among the first n of doc that hold a detail link.
Linked(doc, n) == {i \in 1..n : i <= Len(doc) /\ HasDetailLink(doc[i])}

\* The k-th of them, in document order.
NthLinked(doc, n, k) ==
  CHOOSE i \in Linked(doc, n) : Cardinality({j \in Linked(doc, n) : j <= i}) = k

\* The run of p has returned from scrape().
Scraped(p) == pc[p] \notin {"off", "start", "loop"}

\* The run of p has ended.
Ended(p) == pc[p] \in {"done", "failed"}

\* What the run of p has put after the CSV content it found.
CsvAdded(p) == Suffix(csv.content, Len(pre[p].csv.content))

FilesAsFound(p) == json = pre[p].json /\ csv = pre[p].csv

\* Both sinks written in full by the run of p.
BothWritten(p) ==
  /\ json = JsonFile(data[p])
  /\ csv = CsvFile(pre[p].csv.content
                   \o (IF pre[p].csv.exists THEN << >> ELSE << fieldnames >>)
                   \o CsvRows(data[p]))

\* ------------------------------------------------------------------ claims

\* C1: a run whose fetch fails (no response, or an error status) ends in
\* failure before either sink is reached: it returns nothing and both files
\* keep the content the run found.
C1_FetchFailureLeavesFiles ==
  \A p \in Procs :
    (pc[p] \notin {"off", "start"} /\ FetchFailed(resp[p]))
      => /\ pc[p] = "failed"
         /\ data[p] = << >>
         /\ FilesAsFound(p)

\* C1 happens: a second run gets a 500 whose body holds a station item,
\* after a first run wrote both files.
C1_Witness ==
  /\ Len(log) = 2
  /\ log[1].outcome = "done" /\ HasData(log[1].data)
  /\ pc[1] = "failed"
  /\ resp[1].up /\ resp[1].status = 500 /\ resp[1].body # << >>
  /\ json.valid /\ csv.exists

\* C2: at the end of every run, a write failure included, both sinks were
\* written or neither was, and it is both exactly when a record was retained.
C2_NoPartialSuccess ==
  \A p \in Procs :
    Ended(p) => IF HasData(data[p]) THEN BothWritten(p) ELSE FilesAsFound(p)

\* C3: when no item of the fetched page is retained, scrape returns the
\* empty list without raising and the run ends with both files as found.
C3_EmptyResultWritesNothing ==
  \A p \in Procs :
    (pc[p] \notin {"off", "start"} /\ ~FetchFailed(resp[p])
       /\ Linked(resp[p].body, Len(resp[p].body)) = {})
      => /\ records[p] = << >>
         /\ FilesAsFound(p)
         /\ Scraped(p) => (pc[p] = "done" /\ data[p] = << >>)

\* C3 happens: a page of station items without a detail link, fetched while
\* the files of an earlier run are there.
C3_Witness ==
  /\ pc[1] = "done"
  /\ ~FetchFailed(resp[1])
  /\ Len(resp[1].body) = MaxItems
  /\ Linked(resp[1].body, MaxItems) = {}
  /\ pre[1].json.valid /\ pre[1].csv.exists

\* C4: when each of the N items of the page holds a detail link, scrape
\* returns N records in document order, and a run that ends well has put
\* exactly the N rows of these records, in that order, after the CSV content
\* it found.
C4_AllLinkedKeptInOrder ==
  \A p \in Procs :
    LET doc == resp[p].body
        N   == Len(doc)
        rows == SelectSeq(CsvAdded(p), NotHeader)
    IN  (Scraped(p) /\ ~FetchFailed(resp[p]) /\ Linked(doc, N) = 1..N)
          => /\ Len(data[p]) = N
             /\ \A i \in 1..N : data[p][i].detail_url = Some(FirstDetailLink(doc[i]))
             /\ pc[p] = "done"
                  => /\ IsPrefix(pre[p].csv.content, csv.content)
                     /\ Len(rows) = N
                     /\ \A i \in 1..N :
                          /\ rows[i] = CsvRow(data[p][i])
                          /\ rows[i][6] = FirstDetailLink(doc[i])

\* C4 happens: a run over two different linked items has ended well, the
\* stations named after the slugs of their links.
C4_Witness ==
  /\ pc[1] = "done"
  /\ ~FetchFailed(resp[1])
  /\ resp[1].body = << ItemNoAqi, ItemFull >>
  /\ Linked(resp[1].body, 2) = {1, 2}
  /\ data[1][1].station = Some(<< "D","k","i","1"," ","B" >>)
  /\ data[1][2].station = Some(<< "U","s"," ","E","m","b","a","s","s","y"," ","1" >>)
  /\ Len(CsvAdded(1)) >= 2

\* C5: a run that finds the CSV file there only appends data rows to it (no
\* header, the content found kept as a prefix); a run that finds no file
\* writes one header at most, as the first line.
C5_HeaderOnlyWhenAbsent ==
  \A p \in Procs :
    pc[p] # "off"
      => /\ IsPrefix(pre[p].csv.content, csv.content)
         /\ pre[p].csv.exists => csv.exists
         /\ pre[p].csv.exists => SelectSeq(CsvAdded(p), IsHeader) = << >>
         /\ ~pre[p].csv.exists
              => /\ Len(SelectSeq(CsvAdded(p), IsHeader)) <= 1
                 /\ \A i \in 2..Len(CsvAdded(p)) : CsvAdded(p)[i] # fieldnames

\* C5 happens: the first run found no file and wrote the header, the second
\* run found the file and has appended rows to it.
C5_Witness ==
  /\ Len(log) = 2
  /\ ~log[1].pre.csv.exists /\ log[1].outcome = "done" /\ HasData(log[1].data)
  /\ pc[1] = "done"
  /\ pre[1].csv.exists /\ pre[1].csv.content[1] = fieldnames
  /\ Len(CsvAdded(1)) >= 1

\* The rows of the runs of a log, in run order.
RECURSIVE RowsOfRuns(_)
RowsOfRuns(lg) ==
  IF lg = << >> THEN << >> ELSE CsvRows(Head(lg).data) \o RowsOfRuns(Tail(lg))

Untimed(r) == [r EXCEPT !.timestamp = << >>]

SameButTimestamp(a, b) ==
  Len(a) = Len(b) /\ \A i \in 1..Len(a) : Untimed(a[i]) = Untimed(b[i])

\* Every run so far ended well and retained the same records, timestamps
\* aside.
AllRunsAlike ==
  /\ log # << >>
  /\ \A i \in 1..Len(log) :
       /\ log[i].outcome = "done"
       /\ HasData(log[i].data)
       /\ SameButTimestamp(log[i].data, log[1].data)

\* C6: after k runs that all ended well with the same N records, the JSON
\* file holds the N records of the last run only, and the CSV file holds,
\* after what it held at first (and the header, had there been no file), k
\* blocks of N rows in run order that differ in their timestamp only.
C6_RerunAppendsBlock ==
  (AllRunsAlike /\ pc[1] \in {"done", "start"})
    => LET k == Len(log)
           N == Len(log[1].data)
           base == log[1].pre.csv
           head == base.content \o (IF base.exists THEN << >> ELSE << fieldnames >>)
       IN  /\ json = JsonFile(log[k].data)
           /\ csv = CsvFile(head \o RowsOfRuns(log))
           /\ Len(csv.content) = Len(head) + k * N
           /\ \A i \in 1..k : \A j \in 1..N :
                LET row == csv.content[Len(head) + (i - 1) * N + j]
                IN  /\ row[1] = log[i].data[1].timestamp
                    /\ Suffix(row, 1) = Suffix(csv.content[Len(head) + j], 1)

\* C6 happens: two runs over the same two station items, a second apart.
C6_Witness ==
  /\ AllRunsAlike
  /\ pc[1] = "done"
  /\ Len(log) = 2
  /\ Len(log[1].data) = 2
  /\ log[1].data[1].timestamp # log[2].data[1].timestamp

\* C7: every record scrape holds or returns has a non-empty station, an item
\* without a detail link yields no record, and no record or row without a
\* station is in the JSON file or in the CSV file.
C7_StationNeverBlank ==
  \A p \in Procs :
    /\ \A i \in 1..Len(records[p]) : Truthy(records[p][i].station)
    /\ \A i \in 1..Len(data[p]) : Truthy(data[p][i].station)
    /\ (pc[p] = "loop" /\ ~FetchFailed(resp[p]))
         => Len(records[p]) = Cardinality(Linked(resp[p].body, idx[p] - 1))
    /\ \A i \in 1..Len(json.content) : Truthy(json.content[i].station)
    /\ \A i \in 1..Len(csv.content) : csv.content[i][2] # << >>

\* C7 happens: a page with an item without a detail link next to a station
\* item, the run ended well.
C7_Witness ==
  /\ pc[1] = "done"
  /\ Len(resp[1].body) = 2
  /\ Cardinality(Linked(resp[1].body, 2)) = 1
  /\ Len(data[1]) = 1
  /\ json = JsonFile(data[1])
  /\ Len(CsvAdded(1)) >= 1

\* C8: every record of a run carries the capture time read once when the
\* run began, however long the loop took, and so do the rows the run has
\* written.
C8_OneTimestampPerRun ==
  \A p \in Procs :
    /\ \A i \in 1..Len(records[p]) : records[p][i].timestamp = timestamp[p]
    /\ \A i \in 1..Len(data[p]) : data[p][i].timestamp = timestamp[p]
    /\ \A i, j \in 1..Len(data[p]) : data[p][i].timestamp = data[p][j].timestamp
    /\ pc[p] # "off"
         => \A i \in 1..Len(CsvAdded(p)) :
              CsvAdded(p)[i] = fieldnames \/ CsvAdded(p)[i][1] = timestamp[p]

\* C8 happens: the clock moved on while the loop ran, and the two records of
\* the run carry the time of its start.
C8_Witness ==
  /\ pc[1] = "done"
  /\ Len(data[1]) = 2
  /\ runs = 1
  /\ timestamp[1] = Strftime(0)
  /\ clock = 1

\* C9: two invocations that both found no CSV file and both ended well have
\* each written a header: the file holds as many headers as invocations that
\* saw it absent.
C9_HeaderPerAbsentCheck ==
  (\A p \in Procs : pc[p] = "done" /\ HasData(data[p]))
    => Len(SelectSeq(csv.content, IsHeader))
         = Cardinality({p \in Procs : ~file_exists[p]})
           + Len(SelectSeq(pre[1].csv.content, IsHeader))

\* C9 happens: both invocations saw the file absent, and the file holds two
\* headers, the second between the writes of the first invocation.
C9_Witness ==
  /\ \A p \in Procs : pc[p] = "done" /\ HasData(data[p]) /\ ~file_exists[p]
  /\ ~pre[1].csv.exists
  /\ Len(SelectSeq(csv.content, IsHeader)) = 2
  /\ csv.content[1] = fieldnames
  /\ csv.content[2] = fieldnames

\* C10: an item with a detail link yields its record whatever else it
\* lacks: the record has the six keys, the AQI, the pollutant and the status
\* are absent exactly when the item has no such tag and hold the text of the
\* item's own tag otherwise, and no item makes the loop fail.
C10_FieldsIndependent ==
  \A p \in Procs :
    (pc[p] \notin {"off", "start"} /\ ~FetchFailed(resp[p]))
      => LET doc == resp[p].body
             n   == idx[p] - 1
         IN  /\ pc[p] # "failed"
             /\ Len(records[p]) = Cardinality(Linked(doc, n))
             /\ \A k \in 1..Len(records[p]) :
                  LET li == doc[NthLinked(doc, n, k)]
                      r  == records[p][k]
                  IN  /\ DOMAIN r = {"timestamp", "station", "aqi",
                                     "pollutant", "status", "detail_url"}
                      /\ r.timestamp = timestamp[p]
                      /\ Truthy(r.station)
                      /\ r.detail_url = Some(FirstDetailLink(li))
                      /\ r.aqi = IF li.h5s = << >> THEN None
                                 ELSE Some(<< "4","2" >>)
                      /\ r.pollutant = IF li.ps = << >> THEN None
                                       ELSE Some(<< "P","M","2",".","5" >>)
                      /\ r.status = IF li.spans = << >> THEN None
                                    ELSE Some(<< "S","e","d","a","n","g" >>)

\* C10 happens: an item without AQI and status, then a complete item, both
\* with a detail link, both in the list.
C10_Witness ==
  /\ pc[1] = "save_json"
  /\ Len(resp[1].body) = 2
  /\ resp[1].body[1].h5s = << >> /\ resp[1].body[1].spans = << >>
  /\ resp[1].body[1].ps # << >>
  /\ resp[1].body[2] = ItemFull
  /\ Len(records[1]) = 2
  /\ ~records[1][1].aqi.some /\ records[1][1].pollutant.some
  /\ records[1][2].aqi.some /\ records[1][2].status.some

====
